---- MODULE Spec2Model ----
(***************************************************************************)
(* Model of the two Dash applications of the repository:                   *)
(*   src/drought_dashboard.py            (variant "base")                  *)
(*   src/enhanced_drought_dashboard.py   (variant "enhanced")              *)
(*                                                                         *)
(* Areas are modelled as natural numbers (a fixed unit of area), so sums   *)
(* and differences are exact.  A percentage value/total*100 is kept as the *)
(* exact fraction [num, den].  A pandas row is a record [year, vals, url]  *)
(* whose vals is a function from the columns present to their values.      *)
(* A call that can raise returns Err(<exception name>) or Ok(<value>).     *)
(***************************************************************************)
EXTENDS Integers, Sequences, FiniteSets, TLC

\* ------------------------------------------------------------------ bounds
\* The largest total area of the two records of a dataset of SpecAgg.
MaxArea == 6
\* The largest number of rows of a dataset of Spec.
MaxRows == 2
\* The largest number of button clicks and timer ticks of a behaviour of Spec.
MaxAux == 2

\* --------------------------------------------------------------- constants
DefaultLeftYear == 1984
DefaultRightYear == 1981
ImageTimeout == 10
PlaceholderSize == 600
RefreshInterval == 30000

\* The six column names in alphabetical order.
categories_alphabetical ==
    <<"Extreme_Drought", "Extremely_Wet", "Moderate_Drought", "Moderately_Wet",
      "Near_Normal", "Severe_Drought">>

\* The six category column names, in the order every function lists them.
categories == <<"Extreme_Drought", "Severe_Drought", "Moderate_Drought",
                "Near_Normal", "Moderately_Wet", "Extremely_Wet">>

CategorySet == {categories[i] : i \in 1..Len(categories)}

\* cat.replace('_', ' ')
DisplayName(cat) ==
    CASE cat = "Extreme_Drought"  -> "Extreme Drought"
      [] cat = "Severe_Drought"   -> "Severe Drought"
      [] cat = "Moderate_Drought" -> "Moderate Drought"
      [] cat = "Near_Normal"      -> "Near Normal"
      [] cat = "Moderately_Wet"   -> "Moderately Wet"
      [] cat = "Extremely_Wet"    -> "Extremely Wet"

themes ==
    [default |-> [header |-> "#6A1B9A", bg |-> "#fafafa", card |-> "#ffffff",
                  text |-> "#333333", border |-> "#e0e0e0", accent |-> "#8e24aa"],
     dark    |-> [header |-> "#2d1b69", bg |-> "#121212", card |-> "#1e1e1e",
                  text |-> "#ffffff", border |-> "#404040", accent |-> "#bb86fc"],
     ocean   |-> [header |-> "#0077be", bg |-> "#f0f8ff", card |-> "#ffffff",
                  text |-> "#333333", border |-> "#87ceeb", accent |-> "#4fc3f7"],
     forest  |-> [header |-> "#228B22", bg |-> "#f5fff5", card |-> "#ffffff",
                  text |-> "#333333", border |-> "#90ee90", accent |-> "#66bb6a"]]

ThemeNames == DOMAIN themes

\* ------------------------------------------------------- results and errors
Ok(v) == [err |-> "none", val |-> v]
Err(e) == [err |-> e]
IsOk(r) == r.err = "none"

\* The first error of a sequence of results, evaluated left to right.
FirstErr(rs) ==
    LET bad == {i \in 1..Len(rs) : ~IsOk(rs[i])}
    IN  IF bad = {} THEN "none"
        ELSE rs[CHOOSE i \in bad : \A j \in bad : i <= j].err

\* ------------------------------------------------------------ pandas access
\* A lookup that falls back to the first row of the table.
Lookup_or_first(d, year) ==
    LET hit == SelectSeq(d, LAMBDA r : r.year = year)
    IN  IF Len(hit) > 0 THEN Ok(hit[1])
        ELSE IF Len(d) > 0 THEN Ok(d[1]) ELSE Err("IndexError")

\* df[df['year'] == year].iloc[0]: the first row of that year, IndexError if none.
Lookup(d, year) ==
    LET hit == SelectSeq(d, LAMBDA r : r.year = year)
    IN  IF Len(hit) = 0 THEN Err("IndexError") ELSE Ok(hit[1])

\* A read that takes an absent column for 0, as year_data.get(cat, 0) would.
GetItem_or_zero(year_data, cat) ==
    IF cat \in DOMAIN year_data.vals THEN Ok(year_data.vals[cat]) ELSE Ok(0)

\* year_data[cat]: KeyError when the column is absent.
GetItem(year_data, cat) ==
    IF cat \in DOMAIN year_data.vals THEN Ok(year_data.vals[cat]) ELSE Err("KeyError")

\* The value year_data[cat] evaluates to.
Val(year_data, cat) == GetItem(year_data, cat).val

\* The error of reading the columns cats of year_data in order ("none" if all are there).
ReadErr(year_data, cats) ==
    FirstErr([i \in 1..Len(cats) |-> GetItem(year_data, cats[i])])

\* years = sorted(df['year'].unique()), as the set of the options offered.
years(d) == {d[i].year : i \in 1..Len(d)}

RECURSIVE SumSeq(_)
\* Python's sum(values): a left fold from 0.
SumSeq(s) == IF Len(s) = 0 THEN 0 ELSE SumSeq(SubSeq(s, 1, Len(s) - 1)) + s[Len(s)]

\* ---------------------------------------------------------------- load_data
\* The configuration flag as the source sets it.
USE_SQLITE == FALSE

\* What sqlite3.connect / read_sql_query / conn.close do, and what read_csv does.
SqliteOutcomes == {"ok", "connect_error", "query_error", "close_error"}
CsvOutcomes == {"ok", "read_error"}

\* pd.read_csv('main_data_updated.csv'): the table of the file, or its exception.
read_csv(csv, csv_table) ==
    IF csv = "ok" THEN Ok(csv_table) ELSE Err("FileNotFoundError")

\* A load_data without the except branch: a failure of the SQLite step is raised.
load_data_no_fallback(use_sqlite, db, db_table, csv, csv_table) ==
    IF use_sqlite
    THEN [result |-> IF db = "ok" THEN Ok(db_table) ELSE Err("OperationalError"),
          source |-> "sqlite", sqlite_accessed |-> TRUE]
    ELSE [result |-> read_csv(csv, csv_table), source |-> "csv",
          sqlite_accessed |-> FALSE]

\* load_data(): with USE_SQLITE the table of the database unless anything in the
\* try block raises, and the CSV file in every other case; an exception of
\* read_csv is not caught.
load_data(use_sqlite, db, db_table, csv, csv_table) ==
    IF use_sqlite /\ db = "ok"
    THEN [result |-> Ok(db_table), source |-> "sqlite", sqlite_accessed |-> TRUE]
    ELSE [result |-> read_csv(csv, csv_table), source |-> "csv",
          sqlite_accessed |-> use_sqlite]

\* ------------------------------------------------------------ image resolver
FetchOutcomes == {"ok", "network_error", "timeout", "non200", "decode_error"}

\* A resolver whose placeholder names the url and the failure it stands for.
get_map_image_tagged(url, outcome) ==
    IF outcome = "ok"
    THEN [kind |-> "enhanced", of |-> url, size |-> PlaceholderSize]
    ELSE [kind |-> "placeholder", color |-> outcome, of |-> url,
          size |-> PlaceholderSize]

\* get_map_image(url): outcome is what requests.get / Image.open do for this url.
\* Only a 200 response that decodes gives the enhanced image; every other outcome
\* falls through (or is swallowed by the bare except) to the placeholder.
get_map_image(url, outcome) ==
    IF outcome = "ok"
    THEN [kind |-> "enhanced", of |-> url, size |-> PlaceholderSize]
    ELSE [kind |-> "placeholder", color |-> "lightgray", size |-> PlaceholderSize]

\* --------------------------------------------------- base: create_bar_chart
left_drought(left_data) ==
    Val(left_data, "Extreme_Drought") + Val(left_data, "Severe_Drought")
        + Val(left_data, "Moderate_Drought")

left_normal(left_data) == Val(left_data, "Near_Normal")

left_wet(left_data) ==
    Val(left_data, "Moderately_Wet") + Val(left_data, "Extremely_Wet")

right_drought(right_data) ==
    Val(right_data, "Extreme_Drought") + Val(right_data, "Severe_Drought")
        + Val(right_data, "Moderate_Drought")

right_normal(right_data) == Val(right_data, "Near_Normal")

\* A chart that drops Extremely_Wet from the right Wet bucket.
right_wet_lossy(right_data) == Val(right_data, "Moderately_Wet")

right_wet(right_data) ==
    Val(right_data, "Moderately_Wet") + Val(right_data, "Extremely_Wet")

bar_categories == <<"Drought", "Near Normal", "Wet">>

\* create_bar_chart once left_data and right_data are looked up (left, right).
bar_chart_figure(left, right, left_year, right_year, theme) ==
    IF ~IsOk(left) \/ ~IsOk(right) THEN Err("IndexError")
    ELSE IF ReadErr(left.val, categories) # "none"
            \/ ReadErr(right.val, categories) # "none"
    THEN Err("KeyError")
    ELSE Ok([data |-> <<[name |-> left_year, x |-> bar_categories,
                         y |-> <<left_drought(left.val), left_normal(left.val),
                                 left_wet(left.val)>>,
                         marker_color |-> "#0077B6"],
                        [name |-> right_year, x |-> bar_categories,
                         y |-> <<right_drought(right.val), right_normal(right.val),
                                 right_wet(right.val)>>,
                         marker_color |-> "#00B4D8"]>>,
             barmode |-> "group",
             paper_bgcolor |-> theme.card, plot_bgcolor |-> theme.card,
             font_color |-> theme.text])

create_bar_chart(left_year, right_year, d, theme_name) ==
    bar_chart_figure(Lookup(d, left_year), Lookup(d, right_year),
                     left_year, right_year, themes[theme_name])

\* ------------------------------------------------------------- pie figures
\* values = [year_data[cat] for cat in categories], paired with their category.
zip_values(cats, year_data) ==
    [i \in 1..Len(cats) |-> [cat |-> cats[i], val |-> Val(year_data, cats[i])]]

\* A filter that keeps the zero entries too.
keep_pie_entry_all(val) == val >= 0

\* The condition of the list comprehension: if val > 0.
keep_pie_entry(val) == val > 0

\* non_zero_data = [(cat, val) for cat, val in zip(categories, values) if val > 0]
non_zero_data(cats, year_data) ==
    SelectSeq(zip_values(cats, year_data), LAMBDA p : keep_pie_entry(p.val))

\* A test that never takes the placeholder branch.
pie_has_data_always(nz) == TRUE

\* "if non_zero_data:" a non-empty list is truthy.
pie_has_data(nz) == Len(nz) > 0

\* The px.pie figure of both files; hole and height are the only differences.
pie_figure(nz, year, theme, hole, height) ==
    IF pie_has_data(nz)
    THEN [values |-> [i \in 1..Len(nz) |-> nz[i].val],
          names  |-> [i \in 1..Len(nz) |-> DisplayName(nz[i].cat)],
          title  |-> year, hole |-> hole, height |-> height,
          paper_bgcolor |-> theme.card, plot_bgcolor |-> theme.card,
          font_color |-> theme.text]
    ELSE [values |-> <<1>>, names |-> <<"No Data">>, title |-> year]

\* create_pie_chart once year_data is looked up.
pie_chart_figure(year_data, year, theme) ==
    IF ~IsOk(year_data) THEN Err("IndexError")
    ELSE IF ReadErr(year_data.val, categories) # "none" THEN Err("KeyError")
    ELSE Ok(pie_figure(non_zero_data(categories, year_data.val), year, theme,
                       "0.3", 300))

\* base: create_pie_charts_section.create_pie_chart(year)
create_pie_chart(year, d, theme_name) ==
    pie_chart_figure(Lookup(d, year), year, themes[theme_name])

\* The two graphs of the section, left then right.
pie_section_of(l, r) ==
    IF ~IsOk(l) THEN l ELSE IF ~IsOk(r) THEN r ELSE Ok(<<l.val, r.val>>)

create_pie_charts_section(left_year, right_year, d, theme_name) ==
    pie_section_of(create_pie_chart(left_year, d, theme_name),
                   create_pie_chart(right_year, d, theme_name))

\* ------------------------------------------------- create_comparison_table
\* A difference that loses its sign.
diff_unsigned(left_val, right_val) ==
    IF right_val >= left_val THEN right_val - left_val ELSE left_val - right_val

\* diff = right_val - left_val
diff(left_val, right_val) == right_val - left_val

\* A colouring that counts an unchanged value as an increase.
diff_color_ge(d) ==
    IF d >= 0 THEN "#e74c3c" ELSE IF d < 0 THEN "#27ae60" ELSE "#95a5a6"

\* diff_color = '#e74c3c' if diff > 0 else '#27ae60' if diff < 0 else '#95a5a6'
diff_color(d) ==
    IF d > 0 THEN "#e74c3c" ELSE IF d < 0 THEN "#27ae60" ELSE "#95a5a6"

\* One html.Tr of the table body.
comparison_row(cat, left_val, right_val, d) ==
    [category |-> DisplayName(cat), left_val |-> left_val, right_val |-> right_val,
     diff |-> d, diff_color |-> diff_color(d)]

\* The rows of the table body, one per category, in the order of categories.
comparison_rows(left_data, right_data) ==
    [i \in 1..Len(categories) |->
        comparison_row(categories[i], Val(left_data, categories[i]),
                       Val(right_data, categories[i]),
                       diff(Val(left_data, categories[i]),
                            Val(right_data, categories[i])))]

\* The loop reads left_data[cat] then right_data[cat]: KeyError if either is absent.
comparison_read_err(left_data, right_data) ==
    IF ReadErr(left_data, categories) # "none" \/ ReadErr(right_data, categories) # "none"
    THEN "KeyError" ELSE "none"

\* create_comparison_table once left_data and right_data are looked up.
comparison_table_of(left, right, left_year, right_year, theme) ==
    IF ~IsOk(left) \/ ~IsOk(right) THEN Err("IndexError")
    ELSE IF comparison_read_err(left.val, right.val) # "none" THEN Err("KeyError")
    ELSE Ok([head |-> <<"Category", left_year, right_year, "Difference">>,
             rows |-> comparison_rows(left.val, right.val),
             head_color |-> theme.accent, border |-> theme.border,
             background |-> theme.card])

\* base: create_comparison_table
create_comparison_table(left_year, right_year, d, theme_name) ==
    comparison_table_of(Lookup(d, left_year), Lookup(d, right_year),
                        left_year, right_year, themes[theme_name])

\* enhanced: create_comparison_table, the same statements
create_comparison_table_enhanced(left_year, right_year, d, theme_name) ==
    comparison_table_of(Lookup(d, left_year), Lookup(d, right_year),
                        left_year, right_year, themes[theme_name])

\* ------------------------------------------- enhanced: create_column_content
\* A percentage computed without the guard on the total.
percentage_unguarded(value, total) == [num |-> value * 100, den |-> total]

\* percentage = (value/total*100) if total > 0 else 0, as an exact fraction.
percentage(value, total) ==
    IF total > 0 THEN [num |-> value * 100, den |-> total] ELSE [num |-> 0, den |-> 1]

\* total = sum(values)
column_total(year_data) ==
    SumSeq([i \in 1..Len(categories) |-> Val(year_data, categories[i])])

\* The cards of the loop "for i, cat in enumerate(categories)".
class_cards(year_data, total) ==
    [i \in 1..Len(categories) |->
        [name |-> DisplayName(categories[i]),
         value |-> Val(year_data, categories[i]),
         percentage |-> percentage(Val(year_data, categories[i]), total)]]

\* class_cards[:3] and class_cards[3:]
card_rows(cards) == <<SubSeq(cards, 1, 3), SubSeq(cards, 4, Len(cards))>>

\* The part of create_column_content that reads no image: the pie figure and the
\* two rows of cards.
column_aggregate(year_data, year, theme) ==
    [figure |-> pie_figure(non_zero_data(categories, year_data), year, theme,
                           "0.5", 300),
     card_rows |-> card_rows(class_cards(year_data, column_total(year_data)))]

\* create_column_content once year_data is looked up; img is what
\* get_map_image(year_data['Map Images Left']) returns.
column_content_of(year_data, year, theme, img) ==
    IF ~IsOk(year_data) THEN Err("IndexError")
    ELSE IF ReadErr(year_data.val, categories) # "none" THEN Err("KeyError")
    ELSE Ok([title |-> year, img |-> img,
             border |-> theme.border, text |-> theme.text,
             body |-> column_aggregate(year_data.val, year, theme)])

create_column_content(year, d, theme_name, img) ==
    column_content_of(Lookup(d, year), year, themes[theme_name], img)

\* ------------------------------------------------ base: create_maps_section
\* create_maps_section.create_vertical_cards(year_data)
create_vertical_cards(year_data) ==
    [i \in 1..Len(categories) |->
        [name |-> DisplayName(categories[i]),
         value |-> Val(year_data, categories[i])]]

\* create_maps_section once both rows are looked up; left_img and right_img are
\* what the two get_map_image calls return.
maps_section_of(left, right, left_year, right_year, theme, left_img, right_img) ==
    IF ~IsOk(left) \/ ~IsOk(right) THEN Err("IndexError")
    ELSE IF ReadErr(left.val, categories) # "none"
            \/ ReadErr(right.val, categories) # "none"
    THEN Err("KeyError")
    ELSE Ok([left_cards |-> create_vertical_cards(left.val),
             left_title |-> left_year, left_img |-> left_img,
             right_title |-> right_year, right_img |-> right_img,
             right_cards |-> create_vertical_cards(right.val),
             text |-> theme.text])

create_maps_section(left_year, right_year, d, theme_name, left_img, right_img) ==
    maps_section_of(Lookup(d, left_year), Lookup(d, right_year), left_year,
                    right_year, themes[theme_name], left_img, right_img)

\* --------------------------------------------- base: create_classes_section
\* create_classes_section.create_class_cards(year) once year_data is looked up:
\* the cards of the loop, returned as class_cards[:3] above class_cards[3:].
create_class_cards(year_data) ==
    IF ~IsOk(year_data) THEN Err("IndexError")
    ELSE IF ReadErr(year_data.val, categories) # "none" THEN Err("KeyError")
    ELSE Ok(card_rows([i \in 1..Len(categories) |->
                          [name |-> DisplayName(categories[i]),
                           value |-> Val(year_data.val, categories[i])]]))

\* The two blocks of cards, left then right.
classes_section_of(l, r) ==
    IF ~IsOk(l) THEN l ELSE IF ~IsOk(r) THEN r ELSE Ok(<<l.val, r.val>>)

\* base: create_classes_section, which update_dashboard does not call.
create_classes_section(left_year, right_year, d, theme_name) ==
    classes_section_of(create_class_cards(Lookup(d, left_year)),
                       create_class_cards(Lookup(d, right_year)))

\* ---------------------------------------------------------------- the state
VARIABLES
    variant,        \* which application runs: "base" or "enhanced"
    df,             \* the DataFrame load_data() returned, a sequence of rows
    left_year,      \* value of the dropdown left-year
    right_year,     \* value of the dropdown right-year
    theme_name,     \* value of the dropdown theme-selector
    loaded,         \* the page is loaded and the initial callbacks have run
    rendered,       \* the children update_dashboard last returned
    styles,         \* the styles update_theme last returned
    error,          \* the exception of the last update_dashboard call, or "none"
    fired,          \* whether the last event invoked update_dashboard
    trend_clicks,   \* n_clicks of trend-btn
    close_clicks,   \* n_clicks of close-trend
    trend_open,     \* is_open of trend-modal
    trend_figure,   \* figure of trend-chart
    export_clicks,  \* n_clicks of export-btn
    export_label,   \* children of export-btn
    n_intervals,    \* n_intervals of auto-refresh
    last_updated,   \* the tick whose time the footer's "Last Updated" text shows
    agg,            \* the result of the last direct call of the pure functions
    boot,           \* how load_data() ran at process start
    run             \* the update_dashboard call in progress, statement by statement

vars == <<variant, df, left_year, right_year, theme_name, loaded, rendered, styles,
          error, fired, trend_clicks, close_clicks, trend_open, trend_figure,
          export_clicks, export_label, n_intervals, last_updated, agg, boot, run>>

Variants == {"base", "enhanced"}

\* ------------------------------------------------------------- the datasets
YearUniverse == {1981, 1984, 1987}

UrlOf(year) == <<"map", year>>

\* The record of each year in the datasets of Spec: two records with data (the
\* first is the record of the specification's concrete scenario) and one of zeros.
SampleVals(year) ==
    CASE year = 1984 -> [Extreme_Drought |-> 10, Severe_Drought |-> 5,
                         Moderate_Drought |-> 5, Near_Normal |-> 20,
                         Moderately_Wet |-> 8, Extremely_Wet |-> 2]
      [] year = 1981 -> [Extreme_Drought |-> 12, Severe_Drought |-> 5,
                         Moderate_Drought |-> 0, Near_Normal |-> 15,
                         Moderately_Wet |-> 9, Extremely_Wet |-> 4]
      [] OTHER       -> [c \in CategorySet |-> 0]

Restrict(f, S) == [x \in S |-> f[x]]

\* The column sets of the datasets: all six categories, or one of them absent.
ColumnSets == {CategorySet, CategorySet \ {"Near_Normal"}}

RECURSIVE RowsOf(_, _)
\* The rows of the years ys in ascending order, with the columns cols.
RowsOf(ys, cols) ==
    IF ys = {} THEN <<>>
    ELSE LET y == CHOOSE m \in ys : \A o \in ys : m <= o
         IN  <<[year |-> y, vals |-> Restrict(SampleVals(y), cols), url |-> UrlOf(y)]>>
                 \o RowsOf(ys \ {y}, cols)

\* What load_data() can return in Spec: one row per year of a set of years.
Datasets ==
    {RowsOf(ys, cols) : ys \in {z \in SUBSET YearUniverse : Cardinality(z) <= MaxRows},
                        cols \in ColumnSets}

RECURSIVE Areas(_, _)
\* The sequences of n areas whose sum is at most m.
Areas(n, m) ==
    IF n = 0 THEN {<<>>}
    ELSE UNION {{<<v>> \o rest : rest \in Areas(n - 1, m - v)} : v \in 0..m}

\* The row of year whose six areas are w[from + 1 .. from + 6].
AreaRow(year, w, from) ==
    [year |-> year, url |-> UrlOf(year),
     vals |-> [c \in CategorySet |->
                  w[from + CHOOSE i \in 1..Len(categories) : categories[i] = c]]]

\* What load_data() can return in SpecAgg: the two default years, with any areas
\* of a total of at most MaxArea.
AggDatasets ==
    {<<AreaRow(DefaultRightYear, w, 0), AreaRow(DefaultLeftYear, w, Len(categories))>> :
        w \in Areas(2 * Len(categories), MaxArea)}

\* --------------------------------------------------------------- callbacks
update_theme(t) ==
    [state |-> "ok",
     main_bg |-> themes[t].bg, main_color |-> themes[t].text,
     header_from |-> themes[t].header, header_to |-> themes[t].accent,
     footer_bg |-> themes[t].card, footer_color |-> themes[t].text,
     footer_border |-> themes[t].border]

\* The images get_map_image can return for the map of the row of year; no image
\* is fetched for a year without a row (the lookup before it raises).
ResolvedImages(d, year) ==
    IF year \in years(d)
    THEN {get_map_image(Lookup(d, year).val.url, o) : o \in FetchOutcomes}
    ELSE {[kind |-> "none"]}

\* The four outputs of the base callback, built in this order; the first exception
\* ends the callback.
dashboard_outputs(maps_section, pie_section, comparison_table, bar_chart) ==
    IF ~IsOk(maps_section) THEN maps_section
    ELSE IF ~IsOk(pie_section) THEN pie_section
    ELSE IF ~IsOk(comparison_table) THEN comparison_table
    ELSE IF ~IsOk(bar_chart) THEN bar_chart
    ELSE Ok([maps_section |-> maps_section.val, pie_section |-> pie_section.val,
             comparison_table |-> comparison_table.val,
             bar_chart |-> bar_chart.val])

\* An update_dashboard whose bar chart, in the dark theme, swaps the two years.
update_dashboard_dark_swapped(l, r, t, left_img, right_img) ==
    dashboard_outputs(create_maps_section(l, r, df, t, left_img, right_img),
                      create_pie_charts_section(l, r, df, t),
                      create_comparison_table(l, r, df, t),
                      IF t = "dark" THEN create_bar_chart(r, l, df, t)
                      ELSE create_bar_chart(l, r, df, t))

\* base: update_dashboard
update_dashboard(l, r, t, left_img, right_img) ==
    dashboard_outputs(create_maps_section(l, r, df, t, left_img, right_img),
                      create_pie_charts_section(l, r, df, t),
                      create_comparison_table(l, r, df, t),
                      create_bar_chart(l, r, df, t))

\* The five outputs of the enhanced callback.
dashboard_outputs_enhanced(column_style, left_content, right_content, comparison_table) ==
    IF ~IsOk(left_content) THEN left_content
    ELSE IF ~IsOk(right_content) THEN right_content
    ELSE IF ~IsOk(comparison_table) THEN comparison_table
    ELSE Ok([left_content |-> left_content.val,
             right_content |-> right_content.val,
             left_style |-> column_style, right_style |-> column_style,
             comparison_table |-> comparison_table.val])

\* An update_dashboard that renders the left year in both columns.
update_dashboard_left_only(l, r, t, left_img, right_img) ==
    dashboard_outputs_enhanced(
        [border |-> themes[t].border, background |-> themes[t].card],
        create_column_content(l, df, t, left_img),
        create_column_content(l, df, t, left_img),
        create_comparison_table_enhanced(l, l, df, t))

\* enhanced: update_dashboard
update_dashboard_enhanced(l, r, t, left_img, right_img) ==
    dashboard_outputs_enhanced(
        [border |-> themes[t].border, background |-> themes[t].card],
        create_column_content(l, df, t, left_img),
        create_column_content(r, df, t, right_img),
        create_comparison_table_enhanced(l, r, df, t))

\* The update_dashboard of the running application.
Dashboard(l, r, t, left_img, right_img) ==
    IF variant = "base" THEN update_dashboard(l, r, t, left_img, right_img)
    ELSE update_dashboard_enhanced(l, r, t, left_img, right_img)

\* A delivery that keeps the first rendering it made.
Deliver_cached(res) ==
    /\ rendered' = IF rendered.state = "ok" THEN rendered
                   ELSE IF IsOk(res) THEN [state |-> "ok", out |-> res.val]
                   ELSE rendered
    /\ error' = res.err

\* What Dash does with the callback's result res: the outputs are replaced, or,
\* after an exception, left as they were.
Deliver(res) ==
    /\ rendered' = IF IsOk(res) THEN [state |-> "ok", out |-> res.val] ELSE rendered
    /\ error' = res.err

\* Dash invokes update_dashboard with the current values of its three inputs.
RunDashboard(l, r, t) ==
    \E left_img \in ResolvedImages(df, l), right_img \in ResolvedImages(df, r) :
        Deliver(Dashboard(l, r, t, left_img, right_img))

\* A toggle that opens on any click and never closes.
toggle_trend_modal_latching(trend_n, close_n, is_open) ==
    IF trend_n > 0 \/ close_n > 0 THEN TRUE ELSE is_open

\* toggle_trend_modal: with a click on record it returns not is_open.
toggle_trend_modal(trend_n, close_n, is_open) ==
    IF trend_n > 0 \/ close_n > 0 THEN ~is_open ELSE is_open

\* create_trend_chart(df): one trace per category over all rows; df[cat] raises
\* KeyError for an absent column.
create_trend_chart(d) ==
    IF \E k \in 1..Len(d) : ReadErr(d[k], categories) # "none" THEN Err("KeyError")
    ELSE Ok([i \in 1..Len(categories) |->
                [name |-> DisplayName(categories[i]),
                 x |-> [k \in 1..Len(d) |-> d[k].year],
                 y |-> [k \in 1..Len(d) |-> Val(d[k], categories[i])]]])

\* An update_trend_chart that draws the trend whether the modal is open or not.
update_trend_chart_always(is_open) ==
    IF IsOk(create_trend_chart(df))
    THEN Ok([state |-> "trend", traces |-> create_trend_chart(df).val])
    ELSE create_trend_chart(df)

\* update_trend_chart(is_open): the figure it returns, or Err when it raises.
update_trend_chart(is_open) ==
    IF is_open
    THEN IF IsOk(create_trend_chart(df))
         THEN Ok([state |-> "trend", traces |-> create_trend_chart(df).val])
         ELSE create_trend_chart(df)
    ELSE Ok([state |-> "empty"])

\* The figure of trend-chart after update_trend_chart ran: its result, or the
\* figure as it was when the callback raised.
TrendFigureAfter(res) == IF IsOk(res) THEN res.val ELSE trend_figure

\* A label that goes back to "Export Data" on every second click.
export_data_toggling(n_clicks) ==
    IF n_clicks % 2 = 1 THEN "Exported!" ELSE "Export Data"

\* export_data(n_clicks): the label of the button once it has been clicked.
export_data(n_clicks) == IF n_clicks > 0 THEN "Exported!" ELSE "Export Data"

\* ------------------------------------------------------- initial conditions
\* The state once the module is imported and app.layout is built, for a dataset d
\* and the dropdown values l and r.
Layout(d, l, r) ==
    /\ variant \in Variants
    /\ df = d
    /\ left_year = l
    /\ right_year = r
    /\ theme_name = "default"
    /\ loaded = FALSE
    /\ rendered = [state |-> "empty"]
    /\ styles = [state |-> "empty"]
    /\ error = "none"
    /\ fired = FALSE
    /\ trend_clicks = 0
    /\ close_clicks = 0
    /\ trend_open = FALSE
    /\ trend_figure = [state |-> "empty"]
    /\ export_clicks = 0
    /\ export_label = "Export Data"
    /\ n_intervals = 0
    /\ last_updated = 0
    /\ agg = [kind |-> "none"]

\* The record of a load_data() call with the inputs it had.
BootRecord(use_sqlite, db, csv, res) ==
    [state |-> IF IsOk(res.result) THEN "serving" ELSE "failed",
     use_sqlite |-> use_sqlite, db |-> db, csv |-> csv,
     source |-> res.source, sqlite_accessed |-> res.sqlite_accessed,
     error |-> res.result.err]

\* Before load_data() is called.
NotStarted ==
    [state |-> "start", use_sqlite |-> USE_SQLITE, db |-> "ok", csv |-> "ok",
     source |-> "none", sqlite_accessed |-> FALSE, error |-> "none"]

\* No update_dashboard call is in progress.
Idle ==
    [pc |-> 0, fetching |-> "none", elapsed |-> 0, done |-> {},
     left_img |-> [kind |-> "none"], right_img |-> [kind |-> "none"]]

\* load_data() has returned d, read as the source configures it, and no callback
\* is running.
Booted(d) ==
    /\ boot = BootRecord(USE_SQLITE, "ok", "ok", load_data(USE_SQLITE, "ok", d, "ok", d))
    /\ run = Idle

\* The dropdowns start at the values written in app.layout.
Init ==
    \E d \in Datasets : Layout(d, DefaultLeftYear, DefaultRightYear) /\ Booted(d)

\* The inputs of the pure functions: any dataset of AggDatasets with the default
\* years, or the dataset of the two sample records with any two of its years.
InitAgg ==
    /\ \/ \E d \in AggDatasets : Layout(d, DefaultLeftYear, DefaultRightYear)
       \/ \E l \in {DefaultLeftYear, DefaultRightYear},
             r \in {DefaultLeftYear, DefaultRightYear} :
              Layout(RowsOf({DefaultLeftYear, DefaultRightYear}, CategorySet), l, r)
    /\ Booted(df)
    /\ variant = "base"

\* ------------------------------------------------------------------ events
trend_vars == <<trend_clicks, close_clicks, trend_open, trend_figure>>
export_vars == <<export_clicks, export_label>>
selection_vars == <<left_year, right_year, theme_name>>

\* The clicks and ticks so far.
AuxEvents == trend_clicks + close_clicks + export_clicks + n_intervals

\* The browser loads the page: Dash invokes every callback once, except
\* export_data (prevent_initial_call).
PageLoad ==
    /\ ~loaded
    /\ loaded' = TRUE
    /\ styles' = update_theme(theme_name)
    /\ RunDashboard(left_year, right_year, theme_name)
    /\ IF variant = "enhanced"
       THEN /\ trend_open' = toggle_trend_modal(trend_clicks, close_clicks, trend_open)
            /\ trend_figure' = TrendFigureAfter(update_trend_chart(trend_open'))
       ELSE UNCHANGED <<trend_open, trend_figure>>
    /\ fired' = TRUE
    /\ UNCHANGED <<boot, run, variant, df, selection_vars, trend_clicks, close_clicks,
                   export_vars, n_intervals, last_updated, agg>>

\* The user picks another option of the left-year dropdown.
SelectLeftYear(y) ==
    /\ loaded
    /\ y \in years(df)
    /\ y # left_year
    /\ left_year' = y
    /\ RunDashboard(y, right_year, theme_name)
    /\ fired' = TRUE
    /\ UNCHANGED <<boot, run, variant, df, right_year, theme_name, loaded, styles, trend_vars,
                   export_vars, n_intervals, last_updated, agg>>

\* The user picks another option of the right-year dropdown.
SelectRightYear(y) ==
    /\ loaded
    /\ y \in years(df)
    /\ y # right_year
    /\ right_year' = y
    /\ RunDashboard(left_year, y, theme_name)
    /\ fired' = TRUE
    /\ UNCHANGED <<boot, run, variant, df, left_year, theme_name, loaded, styles, trend_vars,
                   export_vars, n_intervals, last_updated, agg>>

\* The user picks another theme: update_theme and update_dashboard both have
\* theme-selector as an input.
SelectTheme(t) ==
    /\ loaded
    /\ t \in ThemeNames
    /\ t # theme_name
    /\ theme_name' = t
    /\ styles' = update_theme(t)
    /\ RunDashboard(left_year, right_year, t)
    /\ fired' = TRUE
    /\ UNCHANGED <<boot, run, variant, df, left_year, right_year, loaded, trend_vars,
                   export_vars, n_intervals, last_updated, agg>>

\* A click on "Show Trends": toggle_trend_modal, then update_trend_chart.
ClickTrend ==
    /\ loaded
    /\ variant = "enhanced"
    /\ AuxEvents < MaxAux
    /\ trend_clicks' = trend_clicks + 1
    /\ trend_open' = toggle_trend_modal(trend_clicks', close_clicks, trend_open)
    /\ trend_figure' = TrendFigureAfter(update_trend_chart(trend_open'))
    /\ fired' = FALSE
    /\ UNCHANGED <<boot, run, variant, df, selection_vars, loaded, rendered, styles, error,
                   close_clicks, export_vars, n_intervals, last_updated, agg>>

\* A click on "Close", the button inside the open modal.
ClickClose ==
    /\ loaded
    /\ variant = "enhanced"
    /\ trend_open
    /\ AuxEvents < MaxAux
    /\ close_clicks' = close_clicks + 1
    /\ trend_open' = toggle_trend_modal(trend_clicks, close_clicks', trend_open)
    /\ trend_figure' = TrendFigureAfter(update_trend_chart(trend_open'))
    /\ fired' = FALSE
    /\ UNCHANGED <<boot, run, variant, df, selection_vars, loaded, rendered, styles, error,
                   trend_clicks, export_vars, n_intervals, last_updated, agg>>

\* An export that drops the first row of the dataset it exports.
ClickExport_truncating ==
    /\ loaded
    /\ variant = "enhanced"
    /\ AuxEvents < MaxAux
    /\ export_clicks' = export_clicks + 1
    /\ export_label' = export_data(export_clicks')
    /\ df' = IF Len(df) > 0 THEN Tail(df) ELSE df
    /\ fired' = FALSE
    /\ UNCHANGED <<boot, run, variant, selection_vars, loaded, rendered, styles, error,
                   trend_vars, n_intervals, last_updated, agg>>

\* A click on the export button.
ClickExport ==
    /\ loaded
    /\ variant = "enhanced"
    /\ AuxEvents < MaxAux
    /\ export_clicks' = export_clicks + 1
    /\ export_label' = export_data(export_clicks')
    /\ fired' = FALSE
    /\ UNCHANGED <<boot, run, variant, df, selection_vars, loaded, rendered, styles, error,
                   trend_vars, n_intervals, last_updated, agg>>

\* A tick that closes the trend view and blanks the display.
Tick_resetting ==
    /\ loaded
    /\ variant = "enhanced"
    /\ AuxEvents < MaxAux
    /\ n_intervals' = n_intervals + 1
    /\ trend_open' = FALSE
    /\ rendered' = [state |-> "empty"]
    /\ fired' = FALSE
    /\ UNCHANGED <<boot, run, variant, df, selection_vars, loaded, styles, error, trend_clicks,
                   close_clicks, trend_figure, export_vars, last_updated, agg>>

\* The dcc.Interval auto-refresh fires; no callback has it as an input.
Tick ==
    /\ loaded
    /\ variant = "enhanced"
    /\ AuxEvents < MaxAux
    /\ n_intervals' = n_intervals + 1
    /\ fired' = FALSE
    /\ UNCHANGED <<boot, run, variant, df, selection_vars, loaded, rendered, styles, error,
                   trend_vars, export_vars, last_updated, agg>>

Next ==
    \/ PageLoad
    \/ \E y \in YearUniverse : SelectLeftYear(y)
    \/ \E y \in YearUniverse : SelectRightYear(y)
    \/ \E t \in ThemeNames : SelectTheme(t)
    \/ ClickTrend
    \/ ClickClose
    \/ ClickExport
    \/ Tick

Spec == Init /\ [][Next]_vars

\* ------------------------------------------- the pure functions, called directly
\* The functions of drought_dashboard.py on the two selected years.
AggregateBase ==
    /\ agg' = [kind |-> "base",
               bar_chart |-> create_bar_chart(left_year, right_year, df, theme_name),
               comparison_table |->
                   create_comparison_table(left_year, right_year, df, theme_name),
               non_zero |-> <<non_zero_data(categories, Lookup(df, left_year).val),
                              non_zero_data(categories, Lookup(df, right_year).val)>>,
               pie_section |->
                   create_pie_charts_section(left_year, right_year, df, theme_name),
               legend_cards |->
                   <<create_vertical_cards(Lookup(df, left_year).val),
                     create_vertical_cards(Lookup(df, right_year).val)>>,
               classes_section |->
                   create_classes_section(left_year, right_year, df, theme_name)]
    /\ UNCHANGED <<boot, run, variant, df, selection_vars, loaded, rendered, styles, error, fired,
                   trend_vars, export_vars, n_intervals, last_updated>>

\* The functions of enhanced_drought_dashboard.py on the two selected years.
AggregateEnhanced ==
    /\ agg' = [kind |-> "enhanced",
               comparison_table |->
                   create_comparison_table_enhanced(left_year, right_year, df, theme_name),
               non_zero |-> <<non_zero_data(categories, Lookup(df, left_year).val),
                              non_zero_data(categories, Lookup(df, right_year).val)>>,
               left_column |->
                   column_aggregate(Lookup(df, left_year).val, left_year,
                                    themes[theme_name]),
               right_column |->
                   column_aggregate(Lookup(df, right_year).val, right_year,
                                    themes[theme_name]),
               trend_chart |-> create_trend_chart(df)]
    /\ UNCHANGED <<boot, run, variant, df, selection_vars, loaded, rendered, styles, error, fired,
                   trend_vars, export_vars, n_intervals, last_updated>>

NextAgg == AggregateBase \/ AggregateEnhanced

SpecAgg == InitAgg /\ [][NextAgg]_vars

\* ------------------------------------ process start and a callback, step by step
\* The tables of the CSV file and of the SQLite database.
CsvTable == RowsOf({DefaultRightYear, DefaultLeftYear}, CategorySet)
DbTable == RowsOf(YearUniverse \ {DefaultRightYear}, CategorySet)

\* The statements of update_dashboard in the order Python evaluates them. base:
\* create_maps_section (both lookups, the left cards, the two get_map_image calls,
\* the right cards), the two pies, the table, the bar chart.
base_steps ==
    <<"lookup", "left_legend_cards", "fetch_left", "fetch_right",
      "right_legend_cards", "left_pie", "right_pie", "comparison_table",
      "bar_chart", "return">>

\* enhanced: create_column_content for the left year (lookup, pie, cards, then
\* get_map_image in the return expression), the same for the right year, the table.
enhanced_steps ==
    <<"left_lookup", "left_pie", "left_cards", "fetch_left",
      "right_lookup", "right_pie", "right_cards", "fetch_right",
      "comparison_table", "return">>

Steps == IF variant = "base" THEN base_steps ELSE enhanced_steps

FetchSteps == {"fetch_left", "fetch_right"}

\* The statement the call in progress executes next.
NextStep == Steps[run.pc]

\* The exception a statement raises on the selection l, r ("none" if it returns).
StepErr(step, l, r) ==
    CASE step = "lookup" ->
             IF IsOk(Lookup(df, l)) /\ IsOk(Lookup(df, r)) THEN "none"
             ELSE "IndexError"
      [] step = "left_lookup" -> Lookup(df, l).err
      [] step = "right_lookup" -> Lookup(df, r).err
      [] step \in {"left_legend_cards", "left_pie"} ->
             ReadErr(Lookup(df, l).val, categories)
      [] step \in {"right_legend_cards", "right_pie"} ->
             ReadErr(Lookup(df, r).val, categories)
      [] OTHER -> "none"

\* The module is imported: df = load_data().
StartProcess(use_sqlite, db, csv) ==
    /\ boot.state = "start"
    /\ boot' = BootRecord(use_sqlite, db, csv,
                          load_data(use_sqlite, db, DbTable, csv, CsvTable))
    /\ df' = IF boot'.state = "serving"
             THEN load_data(use_sqlite, db, DbTable, csv, CsvTable).result.val
             ELSE df
    /\ UNCHANGED <<variant, selection_vars, loaded, rendered, styles, error, fired,
                   trend_vars, export_vars, n_intervals, last_updated, agg, run>>

\* Dash invokes update_dashboard: at page load with the values of the layout,
\* afterwards when one of the year dropdowns changes.
Invoke(l, r) ==
    /\ boot.state = "serving"
    /\ run.pc = 0
    /\ IF ~loaded THEN l = left_year /\ r = right_year
       ELSE \/ l \in years(df) /\ l # left_year /\ r = right_year
            \/ r \in years(df) /\ r # right_year /\ l = left_year
    /\ loaded' = TRUE
    /\ left_year' = l
    /\ right_year' = r
    /\ fired' = TRUE
    /\ run' = [Idle EXCEPT !.pc = 1]
    /\ UNCHANGED <<variant, df, theme_name, rendered, styles, error, trend_vars,
                   export_vars, n_intervals, last_updated, agg, boot>>

\* The next statement computes in memory: it returns, or raises and ends the call.
ComputeStep ==
    /\ run.pc > 0
    /\ NextStep \notin FetchSteps \cup {"return"}
    /\ IF StepErr(NextStep, left_year, right_year) = "none"
       THEN /\ run' = [run EXCEPT !.pc = @ + 1, !.done = @ \cup {NextStep}]
            /\ UNCHANGED error
       ELSE /\ run' = Idle
            /\ error' = StepErr(NextStep, left_year, right_year)
    /\ UNCHANGED <<variant, df, selection_vars, loaded, rendered, styles, fired,
                   trend_vars, export_vars, n_intervals, last_updated, agg, boot>>

\* The next statement is a get_map_image call: requests.get is sent and the call
\* waits for it.
StartFetch ==
    /\ run.pc > 0
    /\ NextStep \in FetchSteps
    /\ run.fetching = "none"
    /\ run' = [run EXCEPT !.fetching = NextStep, !.elapsed = 0]
    /\ UNCHANGED <<variant, df, selection_vars, loaded, rendered, styles, error,
                   fired, trend_vars, export_vars, n_intervals, last_updated, agg,
                   boot>>

\* A second passes with the request unanswered.
FetchWait ==
    /\ run.fetching # "none"
    /\ run.elapsed < ImageTimeout
    /\ run' = [run EXCEPT !.elapsed = @ + 1]
    /\ UNCHANGED <<variant, df, selection_vars, loaded, rendered, styles, error,
                   fired, trend_vars, export_vars, n_intervals, last_updated, agg,
                   boot>>

\* The image of a finished fetch, stored for the side it was fetched for.
WithImage(r, img) ==
    IF r.fetching = "fetch_left" THEN [r EXCEPT !.left_img = img]
    ELSE [r EXCEPT !.right_img = img]

\* get_map_image returns: the request was answered in time (o is what came back),
\* or the timeout has passed.
FetchReturn(o) ==
    /\ run.fetching # "none"
    /\ (o = "timeout") <=> (run.elapsed = ImageTimeout)
    /\ run' = [WithImage(run,
                         get_map_image(
                             Lookup(df, IF run.fetching = "fetch_left"
                                        THEN left_year ELSE right_year).val.url, o))
                  EXCEPT !.fetching = "none", !.elapsed = 0, !.pc = @ + 1,
                         !.done = @ \cup {run.fetching}]
    /\ UNCHANGED <<variant, df, selection_vars, loaded, rendered, styles, error,
                   fired, trend_vars, export_vars, n_intervals, last_updated, agg,
                   boot>>

\* The return statement: Dash takes the outputs.
Return ==
    /\ run.pc > 0
    /\ NextStep = "return"
    /\ Deliver(Dashboard(left_year, right_year, theme_name, run.left_img,
                         run.right_img))
    /\ run' = Idle
    /\ UNCHANGED <<variant, df, selection_vars, loaded, styles, fired, trend_vars,
                   export_vars, n_intervals, last_updated, agg, boot>>

\* The process before load_data() has run.
InitRun ==
    /\ Layout(<<>>, DefaultLeftYear, DefaultRightYear)
    /\ boot = NotStarted
    /\ run = Idle

NextRun ==
    \/ \E use_sqlite \in BOOLEAN, db \in SqliteOutcomes, csv \in CsvOutcomes :
           StartProcess(use_sqlite, db, csv)
    \/ \E l \in YearUniverse, r \in YearUniverse : Invoke(l, r)
    \/ ComputeStep
    \/ StartFetch
    \/ FetchWait
    \/ \E o \in FetchOutcomes : FetchReturn(o)
    \/ Return

SpecRun == InitRun /\ [][NextRun]_vars

\* =================================================================== claims
\* The canonical order of the specification, and the areas of a row read by name.
Canonical == <<"Extreme Drought", "Severe Drought", "Moderate Drought",
               "Near Normal", "Moderately Wet", "Extremely Wet">>

AreaOf(row, name) ==
    CASE name = "Extreme Drought"  -> row.vals["Extreme_Drought"]
      [] name = "Severe Drought"   -> row.vals["Severe_Drought"]
      [] name = "Moderate Drought" -> row.vals["Moderate_Drought"]
      [] name = "Near Normal"      -> row.vals["Near_Normal"]
      [] name = "Moderately Wet"   -> row.vals["Moderately_Wet"]
      [] name = "Extremely Wet"    -> row.vals["Extremely_Wet"]

TotalArea(row) ==
    AreaOf(row, "Extreme Drought") + AreaOf(row, "Severe Drought")
        + AreaOf(row, "Moderate Drought") + AreaOf(row, "Near Normal")
        + AreaOf(row, "Moderately Wet") + AreaOf(row, "Extremely Wet")

\* The rows of the two selected years (both exist in every dataset of SpecAgg).
LeftRow == Lookup(df, left_year).val
RightRow == Lookup(df, right_year).val

\* The three bars of one year are the three bucket sums of its row, and add up to
\* the row's total.
GroupedOk(y, row) ==
    /\ y[1] = AreaOf(row, "Extreme Drought") + AreaOf(row, "Severe Drought")
                + AreaOf(row, "Moderate Drought")
    /\ y[2] = AreaOf(row, "Near Normal")
    /\ y[3] = AreaOf(row, "Moderately Wet") + AreaOf(row, "Extremely Wet")
    /\ y[1] + y[2] + y[3] = TotalArea(row)

\* C1: in the bar chart the totals of each of the two years are Drought = Extreme +
\* Severe + Moderate, NearNormal = Near Normal, Wet = Moderately + Extremely Wet, so
\* the three totals add up to the sum of the six category values (nothing is lost).
C1_GroupedTotalsPartition ==
    agg.kind = "base" =>
        /\ IsOk(agg.bar_chart)
        /\ agg.bar_chart.val.data[1].x = <<"Drought", "Near Normal", "Wet">>
        /\ agg.bar_chart.val.data[2].x = <<"Drought", "Near Normal", "Wet">>
        /\ GroupedOk(agg.bar_chart.val.data[1].y, LeftRow)
        /\ GroupedOk(agg.bar_chart.val.data[2].y, RightRow)

\* A bar chart of two different records, every bucket of both non-empty and both
\* wet categories of the right record non-zero.
C1_Witness ==
    /\ agg.kind = "base"
    /\ \A i \in 1..3 : agg.bar_chart.val.data[1].y[i] > 0
    /\ \A i \in 1..3 : agg.bar_chart.val.data[2].y[i] > 0
    /\ AreaOf(RightRow, "Extremely Wet") > 0
    /\ agg.bar_chart.val.data[1].y # agg.bar_chart.val.data[2].y

\* The classification a difference colour stands for.
Classification(color) ==
    CASE color = "#e74c3c" -> "increase"
      [] color = "#27ae60" -> "decrease"
      [] color = "#95a5a6" -> "unchanged"

\* The rows of the comparison table last computed.
TableRows == agg.comparison_table.val.rows

\* C2: for each of the six categories, in canonical order, the comparison gives
\* delta = right value - left value, classified increase when delta > 0, decrease
\* when delta < 0 and unchanged exactly when delta = 0.
C2_DeltaAndClassification ==
    agg.kind # "none" =>
        /\ IsOk(agg.comparison_table)
        /\ Len(TableRows) = Len(Canonical)
        /\ \A i \in 1..Len(Canonical) :
              LET row == TableRows[i]
                  delta == AreaOf(RightRow, Canonical[i]) - AreaOf(LeftRow, Canonical[i])
              IN  /\ row.category = Canonical[i]
                  /\ row.left_val = AreaOf(LeftRow, Canonical[i])
                  /\ row.right_val = AreaOf(RightRow, Canonical[i])
                  /\ row.diff = delta
                  /\ (delta > 0) <=> (Classification(row.diff_color) = "increase")
                  /\ (delta < 0) <=> (Classification(row.diff_color) = "decrease")
                  /\ (delta = 0) <=> (Classification(row.diff_color) = "unchanged")

\* The specification's scenario: right Near Normal 20 against left Near Normal 15 is
\* +5, an increase; the same table has a decrease and an unchanged row.
C2_Witness ==
    /\ agg.kind # "none"
    /\ TableRows[4].left_val = 15 /\ TableRows[4].right_val = 20
    /\ TableRows[4].diff = 5
    /\ Classification(TableRows[4].diff_color) = "increase"
    /\ \E i \in 1..6 : Classification(TableRows[i].diff_color) = "decrease"
    /\ \E i \in 1..6 : Classification(TableRows[i].diff_color) = "unchanged"

\* The comparison table of the running file with the two years exchanged.
SwappedRows ==
    IF agg.kind = "base"
    THEN create_comparison_table(right_year, left_year, df, theme_name).val.rows
    ELSE create_comparison_table_enhanced(right_year, left_year, df, theme_name).val.rows

Opposite(class) ==
    CASE class = "increase" -> "decrease"
      [] class = "decrease" -> "increase"
      [] class = "unchanged" -> "unchanged"

\* C3: the deltas of the comparison (left = a, right = b) are, category by category,
\* the negations of the deltas of the comparison (left = b, right = a): an increase
\* one way is a decrease the other way, and unchanged stays unchanged.
C3_SwapNegatesDeltas ==
    agg.kind # "none" =>
        \A i \in 1..Len(Canonical) :
            /\ SwappedRows[i].category = TableRows[i].category
            /\ SwappedRows[i].diff = 0 - TableRows[i].diff
            /\ Classification(SwappedRows[i].diff_color)
                  = Opposite(Classification(TableRows[i].diff_color))

\* A comparison of two different records with rising, falling and equal categories.
C3_Witness ==
    /\ agg.kind # "none"
    /\ left_year # right_year
    /\ \E i \in 1..6 : TableRows[i].diff > 1 /\ SwappedRows[i].diff < 0 - 1
    /\ \E i \in 1..6 : TableRows[i].diff < 0 /\ SwappedRows[i].diff > 0
    /\ \E i \in 1..6 : TableRows[i].diff = 0 /\ TableRows[i].left_val > 0

\* The six cards of a column, first row then second row.
CardsOf(column) == column.card_rows[1] \o column.card_rows[2]

\* The percentage p of a card is value / total * 100, and 0 when the total is 0; a
\* denominator of 0 is the division error.
PercentageOk(p, value, total) ==
    /\ p.den # 0
    /\ IF total = 0 THEN p.num = 0
       ELSE p.num * total = value * 100 * p.den

PercentagesOk(column, row) ==
    /\ Len(CardsOf(column)) = Len(Canonical)
    /\ \A i \in 1..Len(Canonical) :
          /\ CardsOf(column)[i].name = Canonical[i]
          /\ CardsOf(column)[i].value = AreaOf(row, Canonical[i])
          /\ PercentageOk(CardsOf(column)[i].percentage, AreaOf(row, Canonical[i]),
                          TotalArea(row))

\* C4: the percentage shown for a category is value / total * 100, total being the
\* sum of the record's six values; when the total is 0 every percentage is 0 and no
\* division error is raised.
C4_Percentages ==
    agg.kind = "enhanced" =>
        /\ PercentagesOk(agg.left_column, LeftRow)
        /\ PercentagesOk(agg.right_column, RightRow)

\* One column of a record of zeros beside a column with a card of 50 %.
C4_Witness ==
    /\ agg.kind = "enhanced"
    /\ TotalArea(LeftRow) = 0
    /\ \A i \in 1..6 : CardsOf(agg.left_column)[i].percentage.num = 0
    /\ TotalArea(RightRow) > 2
    /\ \E i \in 1..6 : LET p == CardsOf(agg.right_column)[i].percentage
                       IN  p.num * 2 = 100 * p.den

\* The two pie figures last computed, left then right.
Figures ==
    IF agg.kind = "base" THEN agg.pie_section.val
    ELSE <<agg.left_column.figure, agg.right_column.figure>>

\* The place of a display name in the canonical order.
Place(name) == CHOOSE i \in 1..Len(Canonical) : Canonical[i] = name

\* nz holds, in canonical order, exactly the categories of row with a value > 0,
\* each with its value.
IsNonZeroSubsequence(nz, row) ==
    /\ \A k \in 1..Len(nz) :
          /\ DisplayName(nz[k].cat) \in {Canonical[i] : i \in 1..Len(Canonical)}
          /\ nz[k].val = AreaOf(row, DisplayName(nz[k].cat))
          /\ nz[k].val > 0
    /\ \A k \in 1..(Len(nz) - 1) :
          Place(DisplayName(nz[k].cat)) < Place(DisplayName(nz[k + 1].cat))
    /\ \A i \in 1..Len(Canonical) :
          AreaOf(row, Canonical[i]) > 0 =>
              \E k \in 1..Len(nz) : DisplayName(nz[k].cat) = Canonical[i]

\* The slices of a figure drawn from nz are the entries of nz, in the same order.
FedFrom(figure, nz) ==
    Len(nz) > 0 =>
        /\ Len(figure.values) = Len(nz) /\ Len(figure.names) = Len(nz)
        /\ \A k \in 1..Len(nz) : /\ figure.values[k] = nz[k].val
                                 /\ figure.names[k] = DisplayName(nz[k].cat)

\* C5: the (category, value) pairs fed to the pie chart are a subsequence of the six
\* category values in canonical order, holding exactly the entries with value > 0.
C5_NonZeroSubsequence ==
    agg.kind # "none" =>
        /\ IsNonZeroSubsequence(agg.non_zero[1], LeftRow)
        /\ IsNonZeroSubsequence(agg.non_zero[2], RightRow)
        /\ FedFrom(Figures[1], agg.non_zero[1])
        /\ FedFrom(Figures[2], agg.non_zero[2])

\* A pie that skips zero categories between non-zero ones, beside a pie of one slice.
C5_Witness ==
    /\ agg.kind # "none"
    /\ Figures[1].names = <<"Extreme Drought", "Near Normal", "Extremely Wet">>
    /\ Figures[1].values = <<1, 3, 1>>
    /\ Len(agg.non_zero[2]) = 1

\* The record of a row is all zeros.
AllZero(row) == \A i \in 1..Len(Canonical) : AreaOf(row, Canonical[i]) = 0

\* The pie of a record of zeros is the single slice "No Data" of value 1, built
\* from an empty sequence; the pie of any other record has no such slice.
NoDataOk(figure, nz, row) ==
    IF AllZero(row)
    THEN /\ nz = <<>>
         /\ figure.names = <<"No Data">>
         /\ figure.values = <<1>>
    ELSE /\ nz # <<>>
         /\ \A k \in 1..Len(figure.names) : figure.names[k] # "No Data"

\* C6: for a record whose six values are all 0 the non-zero sequence is empty, no
\* error is raised and the pie is exactly one slice "No Data" of value 1; for a
\* record with a positive value the "No Data" slice is never drawn.
C6_NoDataPlaceholder ==
    agg.kind # "none" =>
        /\ agg.kind = "base" => IsOk(agg.pie_section)
        /\ NoDataOk(Figures[1], agg.non_zero[1], LeftRow)
        /\ NoDataOk(Figures[2], agg.non_zero[2], RightRow)

\* A "No Data" pie beside a pie with slices.
C6_Witness ==
    /\ agg.kind = "enhanced"
    /\ AllZero(RightRow) /\ Figures[2].names = <<"No Data">>
    /\ ~AllZero(LeftRow) /\ Len(Figures[1].names) > 1

\* ------------------------------------------------- claims on the running app
\* A selected year has no row in the dataset.
AbsentYearSelected == left_year \notin years(df) \/ right_year \notin years(df)

\* Some row of the dataset lacks one of the six category columns.
MissingColumn == \E k \in 1..Len(df) : DOMAIN df[k].vals # CategorySet

\* The years a lookup is tried with: those of the datasets and one outside them.
ProbeYears == YearUniverse \cup {1899}

\* C7 as the specification words it: the lookup of an absent year fails with
\* YearNotFoundError.
C7_YearNotFoundError ==
    (loaded /\ AbsentYearSelected) => error = "YearNotFoundError"

\* C7: the lookup of a year that has no row raises (an IndexError, from .iloc[0]
\* on an empty selection) in the call itself; it never returns the row of another
\* year nor a default or empty record, and the callback that looked the year up
\* raises and renders nothing.
C7_AbsentYearRaisesIndexError ==
    /\ \A y \in ProbeYears :
          IF y \in years(df)
          THEN IsOk(Lookup(df, y)) /\ Lookup(df, y).val.year = y
          ELSE Lookup(df, y) = Err("IndexError")
    /\ (loaded /\ AbsentYearSelected) =>
          /\ error \in {"IndexError", "KeyError"}
          /\ error = "KeyError" => MissingColumn /\ variant = "enhanced"
          /\ rendered.state = "empty"

\* The page is loaded on a dataset with rows but none for the left year: the
\* callback raised IndexError and nothing is rendered.
C7_Witness ==
    /\ loaded /\ fired
    /\ Len(df) > 0 /\ left_year \notin years(df)
    /\ error = "IndexError"
    /\ rendered.state = "empty"

\* C8 as the specification words it: a record without one of the six category
\* keys fails with MissingCategoryError.
C8_MissingCategoryError ==
    (loaded /\ MissingColumn /\ ~AbsentYearSelected) => error = "MissingCategoryError"

\* C8: reading a category a record does not have raises (a KeyError); the value is
\* never taken for 0: no total, percentage, delta, card or chart is rendered from
\* such a record, and the trend chart is not drawn.
C8_MissingCategoryRaisesKeyError ==
    /\ \A k \in 1..Len(df), c \in CategorySet :
          IF c \in DOMAIN df[k].vals
          THEN GetItem(df[k], c) = Ok(df[k].vals[c])
          ELSE GetItem(df[k], c) = Err("KeyError")
    /\ (loaded /\ MissingColumn) =>
          /\ error \in {"KeyError", "IndexError"}
          /\ ~AbsentYearSelected => error = "KeyError"
          /\ rendered.state = "empty"
          /\ trend_figure.state = "empty"

\* Both selected years have a row, a column is absent, the trend view is opened:
\* update_dashboard raised KeyError and neither it nor the trend chart drew.
C8_Witness ==
    /\ loaded /\ MissingColumn /\ ~AbsentYearSelected
    /\ left_year # right_year
    /\ error = "KeyError"
    /\ rendered.state = "empty"
    /\ trend_open /\ trend_figure.state = "empty"

\* C9: in every reachable state, the initial one included, the selected left year
\* and the selected right year are each in the dataset's set of years.
C9_SelectionInYearSet ==
    /\ left_year \in years(df)
    /\ right_year \in years(df)

\* The selection, and what the display shows for it.
SelectionChanged ==
    left_year' # left_year \/ right_year' # right_year \/ theme_name' # theme_name

CardsShow(cards, row) ==
    \A i \in 1..Len(Canonical) :
        cards[i].name = Canonical[i] /\ cards[i].value = AreaOf(row, Canonical[i])

\* The display is the one of the current selection: both years' titles and areas,
\* the table of the two years, the colours of the theme.
DisplayMatches ==
    /\ rendered.state = "ok"
    /\ rendered.out.comparison_table.head =
           <<"Category", left_year, right_year, "Difference">>
    /\ rendered.out.comparison_table.head_color = themes[theme_name].accent
    /\ \A i \in 1..Len(Canonical) :
          LET row == rendered.out.comparison_table.rows[i]
          IN  /\ row.left_val = AreaOf(Lookup(df, left_year).val, Canonical[i])
              /\ row.right_val = AreaOf(Lookup(df, right_year).val, Canonical[i])
              /\ row.diff = row.right_val - row.left_val
    /\ variant = "base" =>
          /\ rendered.out.maps_section.left_title = left_year
          /\ rendered.out.maps_section.right_title = right_year
          /\ CardsShow(rendered.out.maps_section.left_cards, Lookup(df, left_year).val)
          /\ CardsShow(rendered.out.maps_section.right_cards,
                       Lookup(df, right_year).val)
    /\ variant = "enhanced" =>
          /\ rendered.out.left_content.title = left_year
          /\ rendered.out.right_content.title = right_year
          /\ CardsShow(CardsOf(rendered.out.left_content.body), Lookup(df, left_year).val)
          /\ CardsShow(CardsOf(rendered.out.right_content.body),
                       Lookup(df, right_year).val)
          /\ rendered.out.left_style.border = themes[theme_name].border

\* C10 as the specification words it: a change of any of the four interaction
\* items (left year, right year, theme, trend view) re-runs update_dashboard.
C10_AnyChangeRerunsDashboard ==
    [][(SelectionChanged \/ trend_open' # trend_open) => fired']_vars

\* C10: a change of the left year, the right year or the theme re-runs
\* update_dashboard on the new selection and, unless it raises, the display is
\* re-rendered to the aggregates of that selection (when it raises the display
\* stays as it was); a change of the trend view re-runs only the trend chart and
\* leaves the display and the selection as they were.
C10_SelectionChangeRerenders ==
    [][/\ SelectionChanged =>
            /\ fired'
            /\ IF error' = "none" THEN DisplayMatches' ELSE rendered' = rendered
       /\ trend_open' # trend_open =>
            /\ ~fired'
            /\ UNCHANGED <<rendered, error, left_year, right_year, theme_name>>
      ]_vars

\* After a trend click the selection was changed in all three items, and the
\* display is the one of the new selection.
C10_Witness ==
    /\ loaded /\ fired /\ variant = "enhanced"
    /\ trend_clicks > 0
    /\ left_year = DefaultRightYear /\ right_year = DefaultLeftYear
    /\ theme_name = "dark"
    /\ DisplayMatches

\* The left year can be aggregated and the right year has no row.
OnlyRightBroken ==
    /\ left_year \in years(df)
    /\ ReadErr(Lookup(df, left_year).val, categories) = "none"
    /\ right_year \notin years(df)

\* The widgets of the left year are on display.
LeftWidgetsShown ==
    /\ rendered.state = "ok"
    /\ IF variant = "base" THEN rendered.out.maps_section.left_title = left_year
       ELSE rendered.out.left_content.title = left_year

\* C11: an aggregation failure for one year selection is caught per widget: the
\* widgets that do not depend on the broken selection (the other year's column or
\* pie chart) are still rendered in the same update.
C11_SoundWidgetsStillRendered ==
    (loaded /\ OnlyRightBroken) => LeftWidgetsShown

\* The placeholder of the specification: flat light gray, 600 x 600.
Placeholder == [kind |-> "placeholder", color |-> "lightgray", size |-> 600]

\* The two map images on display.
ImagesShown ==
    IF variant = "base"
    THEN <<rendered.out.maps_section.left_img, rendered.out.maps_section.right_img>>
    ELSE <<rendered.out.left_content.img, rendered.out.right_content.img>>

\* An image the resolver may give for the map of year.
DisplayableFor(img, year) ==
    \/ img = Placeholder
    \/ img.kind = "enhanced" /\ img.of = UrlOf(year) /\ img.size = 600

\* C12: for every url get_map_image returns a displayable image and raises
\* nothing: on a network error, a timeout, a non-200 response or a decode failure
\* it returns the same placeholder, whatever the url and the failure, and the only
\* errors update_dashboard ends with are those of the aggregation.
C12_ImageResolverNeverFails ==
    /\ \A y \in ProbeYears, o \in FetchOutcomes :
          IF o = "ok" THEN DisplayableFor(get_map_image(UrlOf(y), o), y)
          ELSE get_map_image(UrlOf(y), o) = Placeholder
    /\ error \in {"none", "IndexError", "KeyError"}
    /\ rendered.state = "ok" =>
          /\ DisplayableFor(ImagesShown[1], left_year)
          /\ DisplayableFor(ImagesShown[2], right_year)

\* The display holds the placeholder for the left map, whose fetch failed, beside
\* the enhanced image of the right map.
C12_Witness ==
    /\ rendered.state = "ok"
    /\ left_year # right_year
    /\ ImagesShown[1] = Placeholder
    /\ ImagesShown[2].kind = "enhanced"

\* C13: the dataset is the one loaded at process start in every later state: no
\* callback and no user interaction modifies, replaces or reloads it.
C13_DatasetImmutable == [][df' = df]_vars

\* Every callback has run at least once, on a dataset with rows.
C13_Witness ==
    /\ loaded /\ Len(df) > 0
    /\ variant = "enhanced"
    /\ trend_clicks > 0 /\ export_clicks > 0
    /\ theme_name # "default"
    /\ left_year # DefaultLeftYear

\* C14: a tick of the auto-refresh timer leaves the dataset, the selected years,
\* the theme, the trend view and everything rendered as they were, and runs no
\* callback that reads the data.
C14_TickIsCosmetic ==
    [][n_intervals' # n_intervals =>
          /\ ~fired'
          /\ UNCHANGED <<df, left_year, right_year, theme_name, trend_open,
                         trend_figure, rendered, styles, error>>]_vars

\* The timer ticked while the dashboard was rendered and the trend view open.
C14_Witness ==
    /\ n_intervals > 0
    /\ rendered.state = "ok"
    /\ trend_open /\ trend_figure.state = "trend"

\* C15: after a tick of the auto-refresh timer the "Last Updated" text shows the
\* time of that tick, not the time at which the layout was built.
C15_TickRefreshesLastUpdated ==
    n_intervals > 0 => last_updated = n_intervals

\* The aggregates of a row, from the dataset alone: its six values, the pairs of
\* the pie, its total and its three grouped totals.
ValuesOf(row) == [i \in 1..Len(Canonical) |-> AreaOf(row, Canonical[i])]

PieNamesOf(row) ==
    IF AllZero(row) THEN <<"No Data">>
    ELSE SelectSeq(Canonical, LAMBDA n : AreaOf(row, n) > 0)

PieValuesOf(row) ==
    IF AllZero(row) THEN <<1>>
    ELSE [k \in 1..Len(PieNamesOf(row)) |-> AreaOf(row, PieNamesOf(row)[k])]

GroupedOf(row) ==
    <<AreaOf(row, "Extreme Drought") + AreaOf(row, "Severe Drought")
          + AreaOf(row, "Moderate Drought"),
      AreaOf(row, "Near Normal"),
      AreaOf(row, "Moderately Wet") + AreaOf(row, "Extremely Wet")>>

\* The widgets of one year on display show the aggregates of row.
YearShows(cards, figure, row) ==
    /\ [i \in 1..Len(cards) |-> cards[i].value] = ValuesOf(row)
    /\ figure.names = PieNamesOf(row)
    /\ figure.values = PieValuesOf(row)
    /\ variant = "enhanced" =>
          \A i \in 1..Len(cards) :
              PercentageOk(cards[i].percentage, AreaOf(row, Canonical[i]),
                           TotalArea(row))

\* Everything on display is computed from the rows l and r of the dataset.
ShowsAggregatesOf(l, r) ==
    /\ \A i \in 1..Len(Canonical) :
          LET row == rendered.out.comparison_table.rows[i]
          IN  /\ row.left_val = AreaOf(l, Canonical[i])
              /\ row.right_val = AreaOf(r, Canonical[i])
              /\ row.diff = AreaOf(r, Canonical[i]) - AreaOf(l, Canonical[i])
    /\ IF variant = "base"
       THEN /\ YearShows(rendered.out.maps_section.left_cards,
                         rendered.out.pie_section[1], l)
            /\ YearShows(rendered.out.maps_section.right_cards,
                         rendered.out.pie_section[2], r)
            /\ rendered.out.bar_chart.data[1].y = GroupedOf(l)
            /\ rendered.out.bar_chart.data[2].y = GroupedOf(r)
       ELSE /\ YearShows(CardsOf(rendered.out.left_content.body),
                         rendered.out.left_content.body.figure, l)
            /\ YearShows(CardsOf(rendered.out.right_content.body),
                         rendered.out.right_content.body.figure, r)

\* C17: after any sequence of year, theme, trend and export interactions the
\* values on display (category values, non-zero categories, percentages, grouped
\* totals, deltas) are those of the rows of the current left and right year in
\* the dataset, whatever was selected, clicked or rendered before.
C17_HistoryIndependent ==
    rendered.state = "ok" =>
        ShowsAggregatesOf(Lookup(df, left_year).val, Lookup(df, right_year).val)

\* Both years and the theme were changed, the trend view and the export were
\* clicked, and the display is back on a selection of two different records.
C17_Witness ==
    /\ rendered.state = "ok" /\ fired
    /\ trend_clicks > 0 /\ export_clicks > 0
    /\ theme_name = "ocean"
    /\ left_year = DefaultRightYear /\ right_year = DefaultLeftYear
    /\ ShowsAggregatesOf(Lookup(df, DefaultRightYear).val,
                         Lookup(df, DefaultLeftYear).val)

\* C20: the trend view starts closed and every click on "Show Trends" or "Close"
\* flips it: it is open exactly when the number of clicks on the two buttons is
\* odd, and the initial invocation without clicks leaves it closed.
C20_TrendStrictToggle ==
    trend_open <=> (trend_clicks + close_clicks) % 2 = 1

\* Opened by "Show Trends" and closed again by "Close".
C20_Witness ==
    /\ loaded
    /\ trend_clicks = 1 /\ close_clicks = 1
    /\ ~trend_open

\* The names a consumer lists, in its order.
NamesOf(items) == [i \in 1..Len(items) |-> items[i].name]

\* The two rows of the card layout.
DroughtRow == SubSeq(Canonical, 1, 3)
OtherRow == SubSeq(Canonical, 4, 6)

\* Two rows of cards: the three drought categories above the other three.
TwoRowsOk(rows) ==
    /\ Len(rows) = 2
    /\ NamesOf(rows[1]) = DroughtRow
    /\ NamesOf(rows[2]) = OtherRow

\* The slices of a pie follow the canonical order.
PieOrderOk(figure) ==
    \/ figure.names = <<"No Data">>
    \/ \A j, k \in 1..Len(figure.names) :
          j < k => Place(figure.names[j]) < Place(figure.names[k])

\* C16: every consumer (category cards, legend cards, pie series, rows of the
\* comparison table, trend traces) lists the six categories in the canonical
\* order, and the category cards are laid out in two rows, the three drought
\* categories in the first and Near Normal, Moderately Wet, Extremely Wet in the
\* second.
C16_CanonicalOrderEverywhere ==
    agg.kind # "none" =>
        /\ [i \in 1..Len(TableRows) |-> TableRows[i].category] = Canonical
        /\ PieOrderOk(Figures[1]) /\ PieOrderOk(Figures[2])
        /\ agg.kind = "base" =>
              /\ NamesOf(agg.legend_cards[1]) = Canonical
              /\ NamesOf(agg.legend_cards[2]) = Canonical
              /\ TwoRowsOk(agg.classes_section.val[1])
              /\ TwoRowsOk(agg.classes_section.val[2])
        /\ agg.kind = "enhanced" =>
              /\ TwoRowsOk(agg.left_column.card_rows)
              /\ TwoRowsOk(agg.right_column.card_rows)
              /\ NamesOf(CardsOf(agg.left_column)) = Canonical
              /\ NamesOf(agg.trend_chart.val) = Canonical

\* Cards in two rows, six trend traces over both years, and a pie that skips
\* categories of the order.
C16_Witness ==
    /\ agg.kind = "enhanced"
    /\ Len(agg.left_column.card_rows[1]) = 3
    /\ Len(agg.trend_chart.val) = 6 /\ Len(agg.trend_chart.val[1].x) = 2
    /\ Figures[1].names = <<"Severe Drought", "Near Normal", "Extremely Wet">>

\* The aggregations of one update_dashboard call.
AggregationSteps ==
    {"left_pie", "right_pie", "comparison_table", "bar_chart"}
        \cap {Steps[i] : i \in 1..Len(Steps)}

\* C18: image resolution never blocks the aggregation: while an image fetch is
\* pending (up to its 10-second timeout) the pie, bar and comparison-table
\* computations of the same update are done or can go on.
C18_FetchNeverBlocksAggregation ==
    run.fetching # "none" =>
        \/ AggregationSteps \subseteq run.done
        \/ ENABLED ComputeStep

\* C19: with USE_SQLITE true, when connecting to or querying the database fails
\* the dataset is the CSV file's and the SQLite step raises nothing; with
\* USE_SQLITE false the database is never accessed and the dataset is the CSV
\* file's.
C19_LoadFallsBackToCsv ==
    boot.state # "start" =>
        /\ (boot.use_sqlite /\ boot.db # "ok") =>
              /\ boot.source = "csv"
              /\ boot.sqlite_accessed
              /\ boot.error \in {"none", "FileNotFoundError"}
              /\ boot.csv = "ok" => boot.state = "serving" /\ df = CsvTable
        /\ ~boot.use_sqlite =>
              /\ ~boot.sqlite_accessed
              /\ boot.source = "csv"
              /\ boot.csv = "ok" => boot.state = "serving" /\ df = CsvTable
        /\ (boot.use_sqlite /\ boot.db = "ok") =>
              boot.source = "sqlite" /\ df = DbTable

\* The query failed, the CSV file was read instead, and the dashboard of its two
\* years is on display.
C19_Witness ==
    /\ boot.use_sqlite /\ boot.db = "query_error"
    /\ boot.state = "serving" /\ boot.source = "csv"
    /\ df = CsvTable
    /\ rendered.state = "ok"

\* The line-trend figure of a dataset: one trace per category in canonical order,
\* over the years of all its rows.
TrendOf(d) ==
    [state |-> "trend",
     traces |-> [i \in 1..Len(Canonical) |->
                    [name |-> Canonical[i],
                     x |-> [k \in 1..Len(d) |-> d[k].year],
                     y |-> [k \in 1..Len(d) |-> AreaOf(d[k], Canonical[i])]]]]

\* C21 as the specification words it: the trend chart holds the trend figure
\* exactly when the trend modal is open.
C21_TrendFigureIffOpen ==
    trend_open <=> trend_figure.state = "trend"

\* C21: when the modal is closed the trend chart holds the empty figure; when it
\* is open and every row has the six category columns it holds the six-category
\* trend figure over all years of the dataset, whatever the selected years and
\* the theme; when it is open and a column is absent, update_trend_chart raised
\* and the chart still holds the empty figure.
C21_TrendFigureWhenOpen ==
    /\ ~trend_open => trend_figure = [state |-> "empty"]
    /\ (trend_open /\ ~MissingColumn) => trend_figure = TrendOf(df)
    /\ (trend_open /\ MissingColumn) => trend_figure = [state |-> "empty"]

\* The trend of a two-row dataset is on display, and a year and the theme were
\* changed since the page was loaded.
C21_Witness ==
    /\ trend_open /\ fired
    /\ Len(df) = 2 /\ ~MissingColumn
    /\ trend_figure = TrendOf(df)
    /\ theme_name # "default"
    /\ left_year # DefaultLeftYear

\* C22: the label of the export button is "Export Data" until the first click,
\* "Exported!" after the first click and after every later one, and never goes
\* back; an export click changes nothing else: the dataset, the selected years,
\* the theme, the trend view and everything rendered stay as they were.
C22_ExportLabelLatch ==
    /\ export_label = "Export Data"
    /\ [][/\ export_clicks' = 0 => export_label' = "Export Data"
          /\ export_clicks' > 0 => export_label' = "Exported!"
          /\ export_label = "Exported!" => export_label' = "Exported!"
          /\ export_clicks' # export_clicks =>
                /\ ~fired'
                /\ UNCHANGED <<df, left_year, right_year, theme_name, trend_open,
                               trend_figure, rendered, styles, error>>]_vars

\* The button was clicked twice over a rendered dashboard and still reads
\* "Exported!".
C22_Witness ==
    /\ export_clicks = 2
    /\ export_label = "Exported!"
    /\ rendered.state = "ok"

\* The numbers of the widgets of one year: card values, percentages where there
\* are any, and the series of the pie.
YearNumbers(cards, figure) ==
    [values |-> [i \in 1..Len(cards) |-> cards[i].value],
     percentages |-> IF variant = "enhanced"
                     THEN [i \in 1..Len(cards) |-> cards[i].percentage]
                     ELSE <<>>,
     pie_names |-> figure.names,
     pie_values |-> figure.values]

\* Every number on display: per year, the grouped totals, and per category the
\* two values, the delta and its classification.
NumbersShown ==
    [years |->
         IF variant = "base"
         THEN <<YearNumbers(rendered.out.maps_section.left_cards,
                            rendered.out.pie_section[1]),
                YearNumbers(rendered.out.maps_section.right_cards,
                            rendered.out.pie_section[2])>>
         ELSE <<YearNumbers(CardsOf(rendered.out.left_content.body),
                            rendered.out.left_content.body.figure),
                YearNumbers(CardsOf(rendered.out.right_content.body),
                            rendered.out.right_content.body.figure)>>,
     grouped |->
         IF variant = "base"
         THEN <<rendered.out.bar_chart.data[1].y, rendered.out.bar_chart.data[2].y>>
         ELSE <<>>,
     deltas |->
         [i \in 1..Len(rendered.out.comparison_table.rows) |->
             LET row == rendered.out.comparison_table.rows[i]
             IN  <<row.category, row.left_val, row.right_val, row.diff,
                   Classification(row.diff_color)>>]]

\* C23: a change of theme leaves the selected years as they were, and the
\* category values, pie series, percentages, grouped totals, deltas and delta
\* classifications rendered for the new theme are those rendered for the old
\* one; the styling differs.
C23_ThemeNonInterference ==
    [][theme_name' # theme_name =>
          /\ left_year' = left_year /\ right_year' = right_year
          /\ styles' # styles
          /\ (rendered.state = "ok") <=> (rendered'.state = "ok")
          /\ rendered.state = "ok" =>
                /\ NumbersShown' = NumbersShown
                /\ rendered'.out.comparison_table.head_color
                       # rendered.out.comparison_table.head_color]_vars

\* The base dashboard of two different records was re-rendered in the dark
\* theme.
C23_Witness ==
    /\ variant = "base" /\ fired
    /\ theme_name = "dark"
    /\ rendered.state = "ok"
    /\ rendered.out.comparison_table.head_color = themes["dark"].accent
    /\ left_year # right_year

====
